---- MODULE Spec2Model ----
(***************************************************************************)
(* A model of prometheus/counter.go: the counter's two atomic registers    *)
(* (valBits, change), its exemplar slot, and the goroutines that call Inc, *)
(* Add, AddWithExemplar, get and Write on one counter, each call split at  *)
(* its atomic loads, stores and compare-and-swaps.                         *)
(* A second part models a CounterVec: the Counters it creates on the      *)
(* first lookup of a combination of label values and hands out again on    *)
(* later lookups.                                                          *)
(*                                                                         *)
(* Numbers.  float64 values are modelled by a binary floating-point format *)
(* of the same shape with a significand of MantBits bits (float64: 53) and *)
(* round-to-nearest-even; a float is held as a count of quanta, where      *)
(* Unit quanta make 1.0 (the quantum is the smallest step of the format,   *)
(* 2^-FracBits).  The uint64 register change is CarryBits wide             *)
(* (uint64: 64) and wraps.  The exponent is not bounded: no sum within the *)
(* bounds comes near the overflow to +Inf.                                 *)
(***************************************************************************)
EXTENDS Integers, FiniteSets, Sequences, TLC

\* ---------------------------------------------------------------- bounds
\* Significand width of the modelled float format (float64 has 53).
MantBits == 3
\* Width of the unsigned register change (uint64 has 64).
CarryBits == 4
\* Fraction bits of the modelled float format: 2^FracBits quanta make 1.0.
FracBits == 1
\* Number of goroutines calling into the counter.
NProcs == 2
\* Number of calls issued in a run of the concurrent specifications.
MaxCalls == 5
\* Number of calls issued in a run of the single-goroutine specification.
MaxSeqCalls == 7
\* Number of calls issued in a run of the fair specification.
MaxFairCalls == 4

Pow2(n) == 2 ^ n

Unit == Pow2(FracBits)
CarryMod == Pow2(CarryBits)
Procs == 1 .. NProcs

\* ------------------------------------------------------ float64 and uint64
\* The exponent of the binade of x: the least e with x < 2^(MantBits + e).
RECURSIVE ExpOf(_, _)
ExpOf(x, e) == IF x < Pow2(MantBits + e) THEN e ELSE ExpOf(x, e + 1)

\* The exact number x rounded to the nearest float, ties to even.
RoundNE ==
    [x \in Nat |->
        LET s == Pow2(ExpOf(x, 0))
            q == x \div s
            r == x % s
        IN  IF 2 * r < s THEN q * s
            ELSE IF 2 * r > s THEN (q + 1) * s
            ELSE IF q % 2 = 0 THEN q * s
            ELSE (q + 1) * s]

\* a + b of two float64 values.
FAdd(a, b) == RoundNE[a + b]

\* math.Float64bits: biased exponent above the fraction field; exponent
\* field 0 holds the subnormals.
Float64bits ==
    [x \in Nat |->
        IF x < Pow2(MantBits - 1) THEN x
        ELSE LET e == ExpOf(x, 0) + 1
                 m == x \div Pow2(e - 1)
             IN  e * Pow2(MantBits - 1) + (m - Pow2(MantBits - 1))]

\* math.Float64frombits.
Float64frombits ==
    [b \in Nat |->
        LET e == b \div Pow2(MantBits - 1)
            f == b % Pow2(MantBits - 1)
        IN  IF e = 0 THEN f ELSE (Pow2(MantBits - 1) + f) * Pow2(e - 1)]

\* float64(u) of a uint64.
Float64OfUint(u) == RoundNE[u * Unit]

\* A uint64(v) that rounds a fractional v up.
Uint64OfFloatRoundsUp(v) ==
    IF (v + Unit - 1) \div Unit < CarryMod THEN {(v + Unit - 1) \div Unit}
    ELSE 0 .. (CarryMod - 1)

\* uint64(v) of a float64 v >= 0: truncation; out of range the result is
\* implementation-dependent (any uint64).
Uint64OfFloat(v) ==
    IF v \div Unit < CarryMod THEN {v \div Unit} ELSE 0 .. (CarryMod - 1)

\* ------------------------------------------------------------------ inputs
Half == Unit \div 2
One == Unit
\* The least base on which adding 1.0 is lost to rounding (float64: 2^53).
BigBase == Pow2(MantBits) * Unit
\* Half the range of change (uint64: 2^63).
HalfCarry == Pow2(CarryBits - 1) * Unit
\* The least base on which adding HalfCarry is lost to rounding (2^116).
WrapBase == Pow2(CarryBits + MantBits - 1) * Unit

\* The deltas the callers pass to Add, in quanta.
Deltas == {0, Half, One, BigBase, HalfCarry, WrapBase}
NegDeltas == {0 - One}
\* The deltas passed to AddWithExemplar.
ExDeltas == {One, BigBase}
\* The deltas passed to Add by concurrent goroutines.
ConcDeltas == {One, BigBase, HalfCarry, WrapBase}
\* The deltas passed to Add by goroutines whose commits are followed: zero,
\* a fraction, and deltas that take each path.
PathDeltas == {0, Half, One, BigBase}
\* The deltas passed to Add beside AddWithExemplar calls.
ExAddDeltas == {One}
\* Labels arguments: nil, the empty map, a valid map, and a map that
\* newExemplar rejects (an invalid name, or more than 128 runes).
NilLabels == "nil"
LabelArgs == {NilLabels, "empty", "valid", "invalid"}
\* Number of calls issued in a run of the exemplar specification, and the
\* number of AddWithExemplar calls among them.
MaxExCalls == 5
MaxExemplarCalls == 2

\* -------------------------------------------------------------------- state
VARIABLES
    valBits,     \* counter.valBits
    change,      \* counter.change
    exemplar,    \* counter.exemplar
    pc,          \* per goroutine: where it stands in its call
    loc,         \* per goroutine: arguments and locals of its call
    last,        \* the result of the call that finished last
    intf,        \* history, per goroutine: writes by others since its loads
    hist,        \* history of the run (see NoHist)
    reads,       \* history of the gets and the folds they overlap (see NoReads)
    metrics,     \* CounterVec: label values -> the Counter stored for them
    heap,        \* the Counters a CounterVec has created, by identity
    held,        \* per goroutine: what its latest lookup returned
    vloc,        \* per goroutine: where it stands in a lookup
    views,       \* the views of the CounterVec: the labels each has curried
    vhist        \* history of the lookups (see NoVecHist)

counterVars == <<valBits, change, exemplar, pc, loc, last, intf, hist>>
vecVars == <<metrics, heap, held, vloc, views, vhist>>
vars == <<valBits, change, exemplar, pc, loc, last, intf, hist, reads,
          metrics, heap, held, vloc, views, vhist>>

\* An exemplar; addVal is history: what get would have returned when the
\* Add of the AddWithExemplar call that stored it returned, and the float
\* in valBits at that moment.
NoExemplar == [present |-> FALSE, value |-> 0, labels |-> NilLabels,
               addVal |-> 0, addBase |-> 0]
NoLoc == [op |-> "none", v |-> 0, lab |-> NilLabels, oldBits |-> 0, newBits |-> 0,
          oldChange |-> 0, u |-> 0, fval |-> 0, ex |-> NoExemplar,
          addVal |-> 0, addBase |-> 0]
\* The result of a call: the call (op) and its arguments (v, lab), how it
\* ended (out), and for get and Write the value and the exemplar returned.
NoRet == [op |-> "none", v |-> 0, lab |-> NilLabels, out |-> "none", val |-> 0,
          ex |-> NoExemplar]
NoIntf == [val |-> FALSE, chg |-> FALSE]
\* calls: calls issued.  exCalls: AddWithExemplar calls issued.  retries:
\* failed compare-and-swaps.  sumInv: exact sum of the deltas of the Inc/Add
\* calls issued.  collisions: folds whose window (load of change to reset)
\* saw another goroutine write change.  lastRead: value returned by the
\* latest finished get.  frac: some delta had a fractional part.  rounded:
\* some float sum stored into valBits was rounded, or some uint64(v) was out
\* of range.  wrapped: some addition on change overflowed.
NoHist == [calls |-> 0, exCalls |-> 0, sumInv |-> 0, collisions |-> 0,
           retries |-> 0, lastRead |-> 0,
           frac |-> FALSE, rounded |-> FALSE, wrapped |-> FALSE]

\* History of the gets.  overlap: per goroutine, whether the get it is in
\* has overlapped the fold of an Add (from the load of change that leads to
\* the fold's compare-and-swap, to the store of 0).  floor: per goroutine,
\* the greatest value that a get overlapping no fold had returned when its
\* get started.  greatest: the greatest value returned so far by a get that
\* overlapped no fold.  gets: gets issued.
NoReads == [overlap |-> [p \in Procs |-> FALSE], floor |-> [p \in Procs |-> 0],
            greatest |-> 0, gets |-> 0]

\* The variable labels of the CounterVec's descriptor, the values lookups
\* pass for them, and the number of calls issued on the CounterVec.
VarLabels == <<"a", "b">>
LabelValues == {"x", "y"}
MaxVecCalls == 5
\* The label-value combinations of the descriptor, and the arguments of
\* lookups: also sequences with a value missing.
Signatures == [1..Len(VarLabels) -> LabelValues]
LvsArgs == UNION {[1..n -> LabelValues] : n \in (Len(VarLabels) - 1)..Len(VarLabels)}
\* A label that has no value: in a Labels map, a name that is not a key;
\* in a view, a variable label that is not curried.
NoValue == "-"
\* The names Labels maps use: the variable labels and one that is none.
LabelNames == {VarLabels[i] : i \in 1..Len(VarLabels)} \cup {"c"}
\* The curried values of a view, by position of the variable label; the
\* view NewCounterVec returns has none.
NoCurry == [i \in 1..Len(VarLabels) |-> NoValue]
\* The Labels maps passed to GetMetricWith, With, CurryWith, MustCurryWith.
NoLabels == [n \in LabelNames |-> NoValue]
\* No view: the nil *CounterVec.
NoView == <<>>
LabelMaps == {[NoLabels EXCEPT !["a"] = "x"], [NoLabels EXCEPT !["b"] = "y"],
              [NoLabels EXCEPT !["a"] = "x", !["b"] = "y"],
              [NoLabels EXCEPT !["a"] = "y"], [NoLabels EXCEPT !["c"] = "x"]}
\* The label values passed to lookups on views: one value or two.
ViewLvsArgs == {<<"y">>, <<"x", "y">>}
\* Number of calls issued in a run of the specification with views.
MaxCurryCalls == 3
\* What a call on the CounterVec returned: the method called (op), the view
\* it was called on and its arguments, the outcome, for a lookup the label
\* values it resolved to and the Counter's identity (0: none), for a curry
\* the labels of the new view, and as history the number of Resets before it.
NoHandle == [op |-> "none", view |-> NoCurry, args |-> <<>>,
             lvs |-> <<>>, id |-> 0, epoch |-> 0, out |-> "none",
             curried |-> NoView]
NoVecLoc == [pc |-> "idle", h |-> NoHandle]
\* calls: calls issued on the CounterVec.  epoch: Resets so far.  log: the
\* handles lookups returned, in order.  incs: per Counter created, the Inc
\* calls made through its handles.
NoVecHist == [calls |-> 0, epoch |-> 0, log |-> <<>>, incs |-> <<>>]

\* NewCounter: both registers zero, no exemplar.  NewCounterVec: no Counter.
Init ==
    /\ valBits = 0
    /\ change = 0
    /\ exemplar = NoExemplar
    /\ pc = [p \in Procs |-> "idle"]
    /\ loc = [p \in Procs |-> NoLoc]
    /\ last = NoRet
    /\ intf = [p \in Procs |-> NoIntf]
    /\ hist = NoHist
    /\ metrics = [s \in Signatures |-> 0]
    /\ heap = <<>>
    /\ held = [p \in Procs |-> NoHandle]
    /\ vloc = [p \in Procs |-> NoVecLoc]
    /\ reads = NoReads
    /\ views = {NoCurry}
    /\ vhist = NoVecHist

\* ------------------------------------------------------------ pure helpers
\* addWithRoundingErrorChecking: <<sum, whether the addend was lost>>.
addWithRoundingErrorChecking(base, addend) ==
    IF addend = 0 THEN <<base, FALSE>>
    ELSE <<FAdd(base, addend), FAdd(base, addend) = base>>

\* What get computes from the two loaded registers.
GetValue(bits, ival) == FAdd(Float64frombits[bits], Float64OfUint(ival))

\* What a get running with no concurrent step would return now.
GetNow == GetValue(valBits, change)

\* The guard of Add: v < 0 panics.
IsNegativeBelowMinusOne(v) == v < 0 - One
IsNegative(v) == v < 0

\* newExemplar's verdict on the labels.
NewExemplarOk(l) == l \in {"empty", "valid"}

\* History: goroutine p wrote valBits / change; note it for the others
\* that have loaded the register and not yet used what they loaded.
NoteValWrite(p) ==
    [q \in Procs |->
        IF q # p /\ pc[q] \in {"loadChange", "casChange", "casFold", "casDirect"}
        THEN [intf[q] EXCEPT !.val = TRUE] ELSE intf[q]]
NoteChgWrite(p) ==
    [q \in Procs |->
        IF q # p /\ pc[q] \in {"casChange", "casFold", "reset"}
        THEN [intf[q] EXCEPT !.chg = TRUE] ELSE intf[q]]

\* --------------------------------------------------------- leaving a call
\* The call of p returns (or panics): p is idle again.
Return(p, r) ==
    /\ pc' = [pc EXCEPT ![p] = "idle"]
    /\ loc' = [loc EXCEPT ![p] = NoLoc]
    /\ last' = r

\* Add returns with the registers at vb, ch: to the caller, or into
\* AddWithExemplar's updateExemplar (line 193).
FinishAdd(p, vb, ch) ==
    IF loc[p].op = "addex"
    THEN /\ pc' = [pc EXCEPT ![p] = "updEx"]
         /\ loc' = [loc EXCEPT ![p] = [NoLoc EXCEPT !.op = "addex", !.v = loc[p].v,
                                          !.lab = loc[p].lab,
                                          !.addVal = GetValue(vb, ch),
                                          !.addBase = Float64frombits[vb]]]
         /\ last' = last
    ELSE Return(p, [NoRet EXCEPT !.op = "add", !.out = "ok"])

\* A failed compare-and-swap: continue, back to the load of valBits.
Retry(p) ==
    /\ pc' = [pc EXCEPT ![p] = "load"]
    /\ loc' = [loc EXCEPT ![p] = [NoLoc EXCEPT !.op = loc[p].op, !.v = loc[p].v,
                                     !.lab = loc[p].lab]]
    /\ intf' = [intf EXCEPT ![p] = NoIntf]
    /\ hist' = [hist EXCEPT !.retries = @ + 1]
    /\ UNCHANGED <<valBits, change, exemplar, last>>

\* ---------------------------------------------------------------- Inc
\* An Inc that adds 1 to the float in valBits.
IncOnValBits(p, budget) ==
    /\ pc[p] = "idle"
    /\ hist.calls < budget
    /\ valBits' = Float64bits[FAdd(Float64frombits[valBits], One)]
    /\ hist' = [hist EXCEPT !.calls = @ + 1, !.sumInv = @ + One]
    /\ intf' = NoteValWrite(p)
    /\ Return(p, [NoRet EXCEPT !.op = "inc", !.out = "ok"])
    /\ UNCHANGED <<change, exemplar>>

\* Inc, lines 196-200: one atomic add of 1 on change.
Inc(p, budget) ==
    /\ pc[p] = "idle"
    /\ hist.calls < budget
    /\ change' = (change + 1) % CarryMod
    /\ hist' = [hist EXCEPT !.calls = @ + 1, !.sumInv = @ + One,
                            !.wrapped = @ \/ change + 1 >= CarryMod]
    /\ intf' = NoteChgWrite(p)
    /\ Return(p, [NoRet EXCEPT !.op = "inc", !.out = "ok"])
    /\ UNCHANGED <<valBits, exemplar>>

\* ---------------------------------------------------------------- Add
\* Entry of Add(v), lines 147-150: a negative v panics before any access.
AddEnter(p, v, l, op) ==
    IF IsNegative(v)
    THEN /\ Return(p, [NoRet EXCEPT !.op = op, !.v = v, !.lab = l, !.out = "panic"])
         /\ hist' = [hist EXCEPT !.calls = @ + 1,
                                 !.exCalls = @ + (IF op = "addex" THEN 1 ELSE 0)]
         /\ UNCHANGED <<valBits, change, exemplar, intf>>
    ELSE /\ pc' = [pc EXCEPT ![p] = "load"]
         /\ loc' = [loc EXCEPT ![p] = [NoLoc EXCEPT !.op = op, !.v = v, !.lab = l]]
         /\ hist' = [hist EXCEPT !.calls = @ + 1, !.sumInv = @ + v,
                                 !.exCalls = @ + (IF op = "addex" THEN 1 ELSE 0),
                                 !.frac = @ \/ v % Unit # 0]
         /\ UNCHANGED <<valBits, change, exemplar, last, intf>>

Add(p, v, budget) ==
    /\ pc[p] = "idle"
    /\ hist.calls < budget
    /\ AddEnter(p, v, NilLabels, "add")

\* Lines 153-158: load valBits, add, and branch on the rounding error.
AddLoad(p) ==
    /\ pc[p] = "load"
    /\ LET r == addWithRoundingErrorChecking(Float64frombits[valBits], loc[p].v)
       IN  /\ pc' = [pc EXCEPT ![p] = IF r[2] THEN "loadChange" ELSE "casDirect"]
           /\ loc' = [loc EXCEPT ![p].oldBits = valBits,
                                 ![p].newBits = IF r[2] THEN 0 ELSE Float64bits[r[1]]]
    /\ intf' = [intf EXCEPT ![p] = NoIntf]
    /\ UNCHANGED <<valBits, change, exemplar, last, hist>>

\* Lines 162-166: truncate v, load change, and branch on whether the banked
\* total would still be lost on this base.
AddLoadChange(p) ==
    /\ pc[p] = "loadChange"
    /\ \E u \in Uint64OfFloat(loc[p].v) :
         LET sum == (change + u) % CarryMod
             r == addWithRoundingErrorChecking(Float64frombits[loc[p].oldBits],
                                               Float64OfUint(sum))
         IN  /\ pc' = [pc EXCEPT ![p] = IF r[2] THEN "casChange" ELSE "casFold"]
             /\ loc' = [loc EXCEPT ![p].oldChange = change, ![p].u = u,
                                   ![p].newBits = IF r[2] THEN 0 ELSE Float64bits[r[1]]]
    /\ intf' = [intf EXCEPT ![p].chg = FALSE]
    /\ UNCHANGED <<valBits, change, exemplar, last, hist>>

\* History of a store of oldChange + u: an overflow of change, an
\* out-of-range uint64(v).
NoteCarrySum(p) ==
    [hist EXCEPT !.wrapped = @ \/ loc[p].oldChange + loc[p].u >= CarryMod,
                 !.rounded = @ \/ loc[p].v \div Unit >= CarryMod]

\* The bank step with the swap expecting oldChange + u in change.
AddCasChangeExpectsSum(p) ==
    /\ pc[p] = "casChange"
    /\ IF change = (loc[p].oldChange + loc[p].u) % CarryMod
       THEN LET nc == (loc[p].oldChange + loc[p].u) % CarryMod
            IN  /\ change' = nc
                /\ FinishAdd(p, valBits, nc)
                /\ intf' = [NoteChgWrite(p) EXCEPT ![p] = NoIntf]
                /\ hist' = NoteCarrySum(p)
                /\ UNCHANGED <<valBits, exemplar>>
       ELSE Retry(p)
\* Lines 167-170: bank u in change, or retry.
AddCasChange(p) ==
    /\ pc[p] = "casChange"
    /\ IF change = loc[p].oldChange
       THEN LET nc == (loc[p].oldChange + loc[p].u) % CarryMod
            IN  /\ change' = nc
                /\ FinishAdd(p, valBits, nc)
                /\ intf' = [NoteChgWrite(p) EXCEPT ![p] = NoIntf]
                /\ hist' = NoteCarrySum(p)
                /\ UNCHANGED <<valBits, exemplar>>
       ELSE Retry(p)

\* Lines 172-173, 181: fold change + u into valBits, or retry.
AddCasFold(p) ==
    /\ pc[p] = "casFold"
    /\ IF valBits = loc[p].oldBits
       THEN /\ valBits' = loc[p].newBits
            /\ pc' = [pc EXCEPT ![p] = "reset"]
            /\ intf' = NoteValWrite(p)
            /\ hist' = [NoteCarrySum(p) EXCEPT !.rounded =
                            @ \/ Float64frombits[loc[p].newBits] #
                                 Float64frombits[loc[p].oldBits]
                                 + ((loc[p].oldChange + loc[p].u) % CarryMod) * Unit]
            /\ UNCHANGED <<change, exemplar, loc, last>>
       ELSE Retry(p)

\* The fold without the store of 0 to change.
AddResetKeepsChange(p) ==
    /\ pc[p] = "reset"
    /\ change' = change
    /\ hist' = [hist EXCEPT !.collisions = @ + (IF intf[p].chg THEN 1 ELSE 0)]
    /\ FinishAdd(p, valBits, change)
    /\ intf' = [intf EXCEPT ![p] = NoIntf]
    /\ UNCHANGED <<valBits, exemplar>>
\* Lines 177-178: the fold's store of 0 to change.
AddReset(p) ==
    /\ pc[p] = "reset"
    /\ change' = 0
    /\ hist' = [hist EXCEPT !.collisions = @ + (IF intf[p].chg THEN 1 ELSE 0)]
    /\ FinishAdd(p, valBits, 0)
    /\ intf' = [NoteChgWrite(p) EXCEPT ![p] = NoIntf]
    /\ UNCHANGED <<valBits, exemplar>>

\* The direct swap of valBits that also stores 0 to change.
AddCasDirectClearsChange(p) ==
    /\ pc[p] = "casDirect"
    /\ IF valBits = loc[p].oldBits
       THEN /\ valBits' = loc[p].newBits
            /\ change' = 0
            /\ FinishAdd(p, loc[p].newBits, 0)
            /\ intf' = [NoteValWrite(p) EXCEPT ![p] = NoIntf]
            /\ hist' = hist
            /\ UNCHANGED exemplar
       ELSE Retry(p)

\* Lines 184-187: the direct swap of valBits, or retry.
AddCasDirect(p) ==
    /\ pc[p] = "casDirect"
    /\ IF valBits = loc[p].oldBits
       THEN /\ valBits' = loc[p].newBits
            /\ FinishAdd(p, loc[p].newBits, change)
            /\ intf' = [NoteValWrite(p) EXCEPT ![p] = NoIntf]
            /\ hist' = [hist EXCEPT !.rounded =
                            @ \/ Float64frombits[loc[p].newBits] #
                                 Float64frombits[loc[p].oldBits] + loc[p].v]
            /\ UNCHANGED <<change, exemplar>>
       ELSE Retry(p)

\* ------------------------------------------------------ AddWithExemplar
\* An AddWithExemplar that rejects invalid labels before it adds.
AddWithExemplarValidatesFirst(p, v, l, budget) ==
    /\ pc[p] = "idle"
    /\ hist.calls < budget
    /\ hist.exCalls < MaxExemplarCalls
    /\ IF l # NilLabels /\ ~NewExemplarOk(l)
       THEN /\ Return(p, [NoRet EXCEPT !.op = "addex", !.v = v, !.lab = l,
                                       !.out = "panic"])
            /\ hist' = [hist EXCEPT !.calls = @ + 1, !.exCalls = @ + 1]
            /\ UNCHANGED <<valBits, change, exemplar, intf>>
       ELSE AddEnter(p, v, l, "addex")

\* Line 192: AddWithExemplar(v, l) first calls Add(v).
AddWithExemplar(p, v, l, budget) ==
    /\ pc[p] = "idle"
    /\ hist.calls < budget
    /\ hist.exCalls < MaxExemplarCalls
    /\ AddEnter(p, v, l, "addex")

\* updateExemplar without the test for nil labels.
updateExemplarNoNilTest(p) ==
    /\ pc[p] = "updEx"
    /\ IF loc[p].lab # NilLabels /\ ~NewExemplarOk(loc[p].lab)
       THEN /\ exemplar' = exemplar
            /\ Return(p, [NoRet EXCEPT !.op = "addex", !.v = loc[p].v, !.lab = loc[p].lab,
                                      !.out = "panic"])
       ELSE /\ exemplar' = [present |-> TRUE, value |-> loc[p].v,
                            labels |-> loc[p].lab, addVal |-> loc[p].addVal,
                            addBase |-> loc[p].addBase]
            /\ Return(p, [NoRet EXCEPT !.op = "addex", !.v = loc[p].v, !.lab = loc[p].lab,
                                      !.out = "ok"])
    /\ UNCHANGED <<valBits, change, intf, hist>>
\* updateExemplar, lines 222-231.
updateExemplar(p) ==
    /\ pc[p] = "updEx"
    /\ IF loc[p].lab = NilLabels
       THEN /\ exemplar' = exemplar
            /\ Return(p, [NoRet EXCEPT !.op = "addex", !.v = loc[p].v, !.lab = loc[p].lab,
                                      !.out = "ok"])
       ELSE IF ~NewExemplarOk(loc[p].lab)
       THEN /\ exemplar' = exemplar
            /\ Return(p, [NoRet EXCEPT !.op = "addex", !.v = loc[p].v, !.lab = loc[p].lab,
                                      !.out = "panic"])
       ELSE /\ exemplar' = [present |-> TRUE, value |-> loc[p].v,
                            labels |-> loc[p].lab, addVal |-> loc[p].addVal,
                            addBase |-> loc[p].addBase]
            /\ Return(p, [NoRet EXCEPT !.op = "addex", !.v = loc[p].v, !.lab = loc[p].lab,
                                      !.out = "ok"])
    /\ UNCHANGED <<valBits, change, intf, hist>>

\* ------------------------------------------------------------ get, Write
Get(p, budget) ==
    /\ pc[p] = "idle"
    /\ hist.calls < budget
    /\ hist' = [hist EXCEPT !.calls = @ + 1]
    /\ pc' = [pc EXCEPT ![p] = "getVal"]
    /\ loc' = [loc EXCEPT ![p] = [NoLoc EXCEPT !.op = "get"]]
    /\ UNCHANGED <<valBits, change, exemplar, last, intf>>

\* Line 203: load valBits.
GetLoadVal(p) ==
    /\ pc[p] = "getVal"
    /\ pc' = [pc EXCEPT ![p] = "getChange"]
    /\ loc' = [loc EXCEPT ![p].fval = Float64frombits[valBits]]
    /\ UNCHANGED <<valBits, change, exemplar, last, intf, hist>>

\* Lines 204-208 (and 219 for Write): load change and return the sum.
GetLoadChange(p) ==
    /\ pc[p] = "getChange"
    /\ LET val == FAdd(loc[p].fval, Float64OfUint(change))
       IN  /\ Return(p, [NoRet EXCEPT !.op = loc[p].op, !.out = "ok", !.val = val,
                                      !.ex = loc[p].ex])
           /\ hist' = [hist EXCEPT !.lastRead = val]
    /\ UNCHANGED <<valBits, change, exemplar, intf>>

Write(p, budget) ==
    /\ pc[p] = "idle"
    /\ hist.calls < budget
    /\ hist' = [hist EXCEPT !.calls = @ + 1]
    /\ pc' = [pc EXCEPT ![p] = "wrEx"]
    /\ loc' = [loc EXCEPT ![p] = [NoLoc EXCEPT !.op = "write"]]
    /\ UNCHANGED <<valBits, change, exemplar, last, intf>>

\* Lines 214-217: load the exemplar, before the value.
WriteLoadExemplar(p) ==
    /\ pc[p] = "wrEx"
    /\ pc' = [pc EXCEPT ![p] = "getVal"]
    /\ loc' = [loc EXCEPT ![p].ex = exemplar]
    /\ UNCHANGED <<valBits, change, exemplar, last, intf, hist>>

\* ---------------------------------------------------------- specifications
\* The steps inside Add.
AddStep(p) ==
    \/ AddLoad(p)
    \/ AddLoadChange(p)
    \/ AddCasChange(p)
    \/ AddCasFold(p)
    \/ AddReset(p)
    \/ AddCasDirect(p)

\* The steps inside get.
GetStep(p) ==
    \/ GetLoadVal(p)
    \/ GetLoadChange(p)

\* Goroutines calling Inc, Add and get on one counter.
Next ==
    /\ \E p \in Procs :
           \/ Inc(p, MaxCalls)
           \/ \E v \in ConcDeltas \cup NegDeltas : Add(p, v, MaxCalls)
           \/ Get(p, MaxCalls)
           \/ AddStep(p)
           \/ GetStep(p)
    /\ UNCHANGED <<vecVars, reads>>

Spec == Init /\ [][Next]_vars

\* Goroutines calling Inc, Add, AddWithExemplar and Write on one counter.
ExNext ==
    /\ \E p \in Procs :
           \/ Inc(p, MaxExCalls)
           \/ \E v \in ExAddDeltas \cup NegDeltas : Add(p, v, MaxExCalls)
           \/ \E v \in ExDeltas \cup NegDeltas, l \in LabelArgs :
                  AddWithExemplar(p, v, l, MaxExCalls)
           \/ Write(p, MaxExCalls)
           \/ AddStep(p)
           \/ updateExemplar(p)
           \/ WriteLoadExemplar(p)
           \/ GetStep(p)
    /\ UNCHANGED <<vecVars, reads>>

ExSpec == Init /\ [][ExNext]_vars

\* One goroutine calling Inc, Add and get.
SeqNext ==
    /\ \/ Inc(1, MaxSeqCalls)
       \/ \E v \in Deltas \cup NegDeltas : Add(1, v, MaxSeqCalls)
       \/ Get(1, MaxSeqCalls)
       \/ AddStep(1)
       \/ GetStep(1)
    /\ UNCHANGED <<vecVars, reads>>

SeqSpec == Init /\ [][SeqNext]_vars

\* Goroutines calling Inc and Add, with deltas that are zero or have a
\* fractional part among them.
MaxPathCalls == 5
PathNext ==
    /\ \E p \in Procs :
           \/ Inc(p, MaxPathCalls)
           \/ \E v \in PathDeltas : Add(p, v, MaxPathCalls)
           \/ AddStep(p)
    /\ UNCHANGED <<vecVars, reads>>

PathSpec == Init /\ [][PathNext]_vars

\* The deltas passed to Add by goroutines whose gets are followed, and the
\* numbers of calls and of gets they issue.
ReadDeltas == {HalfCarry, WrapBase}
MaxReadCalls == 7
MaxReads == 2
\* Some Add is between its load of change and the end of its fold.
FoldInProgress(at) == \E q \in Procs : at[q] \in {"casFold", "reset"}
\* The history of the gets after a step.
ReadsNoted ==
    [overlap |-> [p \in Procs |->
                    IF pc'[p] \in {"getVal", "getChange"}
                    THEN (pc[p] \in {"getVal", "getChange"} /\ reads.overlap[p])
                         \/ FoldInProgress(pc')
                    ELSE FALSE],
     floor |-> [p \in Procs |->
                    IF pc[p] = "idle" /\ pc'[p] = "getVal" THEN reads.greatest
                    ELSE IF pc'[p] \in {"getVal", "getChange"} THEN reads.floor[p]
                    ELSE 0],
     greatest |-> IF \E p \in Procs : /\ pc[p] = "getChange" /\ pc'[p] = "idle"
                                       /\ ~reads.overlap[p]
                                       /\ last'.val > reads.greatest
                  THEN last'.val ELSE reads.greatest,
     gets |-> IF \E p \in Procs : pc[p] = "idle" /\ pc'[p] = "getVal"
              THEN reads.gets + 1 ELSE reads.gets]

\* Goroutines calling Inc, Add and get, with the history of the gets.
ReadNext ==
    /\ \E p \in Procs :
           \/ Inc(p, MaxReadCalls)
           \/ \E v \in ReadDeltas : Add(p, v, MaxReadCalls)
           \/ (Get(p, MaxReadCalls) /\ reads.gets < MaxReads)
           \/ AddStep(p)
           \/ GetStep(p)
    /\ reads' = ReadsNoted
    /\ UNCHANGED vecVars

ReadSpec == Init /\ [][ReadNext]_vars

\* ------------------------------------------------------------- CounterVec
\* newMetric creating a Counter that has counted once already.
newMetricCounted(lvs) ==
    [panic |-> Len(lvs) # Len(VarLabels),
     valBits |-> 0, change |-> 1, exemplar |-> NoExemplar, labelPairs |-> lvs]
\* The function NewCounterVec hands to NewMetricVec: the Counter created for
\* the label values lvs, or a panic when their number is wrong.
newMetric(lvs) ==
    [panic |-> Len(lvs) # Len(VarLabels),
     valBits |-> 0, change |-> 0, exemplar |-> NoExemplar, labelPairs |-> lvs]

\* A call on the CounterVec returns to goroutine p.
VecReturn(p, h) ==
    /\ held' = [held EXCEPT ![p] = h]
    /\ vloc' = [vloc EXCEPT ![p] = NoVecLoc]

\* The variable labels a view with curried values c leaves free: their
\* positions, and their names.
FreePositions(c) == {i \in 1..Len(VarLabels) : c[i] = NoValue}
FreeNames(c) == {VarLabels[i] : i \in FreePositions(c)}
\* The names that are keys of a Labels map.
KeysOf(labels) == {n \in LabelNames : labels[n] # NoValue}

\* The methods that take label values, a Labels map to look up, a Labels
\* map to curry.
ByValues == {"GetMetricWithLabelValues", "WithLabelValues"}
ByLabels == {"GetMetricWith", "With"}
ByCurry == {"CurryWith", "MustCurryWith"}

\* The label values a lookup on a view resolves to: the curried values and,
\* at the free positions, the values given, in order (methods ByValues) or
\* by name (methods ByLabels); an error when their number, or their names,
\* are not those of the free labels.
ResolveArgs(c, op, args) ==
    IF op \in ByValues
    THEN [err |-> Len(args) # Cardinality(FreePositions(c)),
          lvs |-> [i \in 1..Len(VarLabels) |->
                     IF c[i] # NoValue THEN c[i]
                     ELSE LET k == Cardinality({j \in FreePositions(c) : j <= i})
                          IN  IF k <= Len(args) THEN args[k] ELSE NoValue]]
    ELSE [err |-> KeysOf(args) # FreeNames(c),
          lvs |-> [i \in 1..Len(VarLabels) |->
                     IF c[i] # NoValue THEN c[i] ELSE args[VarLabels[i]]]]

\* A lookup on the view with curried values c, up to the point where the
\* Counter is found missing: an error (nil metric) when the arguments do
\* not fit the free labels, the stored Counter when there is one.  must
\* tells the panicking from the non-panicking caller.
MetricVecLookup(p, c, op, args, must, budget) ==
    /\ vloc[p].pc = "idle"
    /\ vhist.calls < budget
    /\ c \in views
    /\ LET r == ResolveArgs(c, op, args)
           h == [NoHandle EXCEPT !.op = op, !.view = c,
                                 !.args = args, !.epoch = vhist.epoch]
       IN  IF r.err
           THEN /\ VecReturn(p, [h EXCEPT !.out = IF must THEN "panic" ELSE "error"])
                /\ vhist' = [vhist EXCEPT !.calls = @ + 1]
           ELSE IF metrics[r.lvs] # 0
           THEN /\ VecReturn(p, [h EXCEPT !.lvs = r.lvs, !.id = metrics[r.lvs],
                                          !.out = "ok"])
                /\ vhist' = [vhist EXCEPT !.calls = @ + 1,
                                !.log = Append(@, [lvs |-> r.lvs, id |-> metrics[r.lvs],
                                                   epoch |-> vhist.epoch, out |-> "ok"])]
           ELSE /\ vloc' = [vloc EXCEPT ![p] = [pc |-> "create",
                                               h |-> [h EXCEPT !.lvs = r.lvs]]]
                /\ vhist' = [vhist EXCEPT !.calls = @ + 1]
                /\ UNCHANGED held
    /\ UNCHANGED <<metrics, heap, views>>
    /\ UNCHANGED <<counterVars, reads>>

\* The rest of the lookup, under the MetricVec's lock: the Counter another
\* lookup has stored meanwhile, or else a new one, made by newMetric and
\* stored.
MetricVecCreate(p) ==
    /\ vloc[p].pc = "create"
    /\ LET lvs == vloc[p].h.lvs
           id  == IF metrics[lvs] # 0 THEN metrics[lvs] ELSE Len(heap) + 1
           h   == [lvs |-> lvs, id |-> id, epoch |-> vhist.epoch, out |-> "ok"]
       IN  /\ IF metrics[lvs] # 0
              THEN /\ UNCHANGED <<metrics, heap>>
                   /\ vhist' = [vhist EXCEPT !.log = Append(@, h)]
              ELSE /\ ~newMetric(lvs).panic
                   /\ heap' = Append(heap, newMetric(lvs))
                   /\ metrics' = [metrics EXCEPT ![lvs] = id]
                   /\ vhist' = [vhist EXCEPT !.log = Append(@, h),
                                             !.incs = Append(@, 0)]
           /\ VecReturn(p, [vloc[p].h EXCEPT !.id = id, !.epoch = vhist.epoch,
                                             !.out = "ok"])
    /\ UNCHANGED views
    /\ UNCHANGED <<counterVars, reads>>

\* CounterVec.GetMetricWithLabelValues on the view with curried values c:
\* the Counter and the error of the MetricVec's lookup.
GetMetricWithLabelValues(p, c, lvs, budget) ==
    MetricVecLookup(p, c, "GetMetricWithLabelValues", lvs, FALSE, budget)

\* A WithLabelValues that returns the nil Counter where
\* GetMetricWithLabelValues returns an error.
WithLabelValuesReturnsNil(p, c, lvs, budget) ==
    MetricVecLookup(p, c, "WithLabelValues", lvs, FALSE, budget)

\* CounterVec.WithLabelValues: panics where GetMetricWithLabelValues
\* returns an error.
WithLabelValues(p, c, lvs, budget) ==
    MetricVecLookup(p, c, "WithLabelValues", lvs, TRUE, budget)

\* CounterVec.GetMetricWith: the lookup by label names.
GetMetricWith(p, c, labels, budget) ==
    MetricVecLookup(p, c, "GetMetricWith", labels, FALSE, budget)

\* CounterVec.With: panics where GetMetricWith returns an error.
With(p, c, labels, budget) ==
    MetricVecLookup(p, c, "With", labels, TRUE, budget)

\* A MetricVec.CurryWith that fixes the labels given whether or not the
\* view has them curried already.
MetricVecCurryWithOverwrites(c, labels) ==
    [err |-> ~(KeysOf(labels) \subseteq {VarLabels[i] : i \in 1..Len(VarLabels)}),
     vec |-> IF ~(KeysOf(labels) \subseteq {VarLabels[i] : i \in 1..Len(VarLabels)})
             THEN NoView
             ELSE [i \in 1..Len(VarLabels) |->
                     IF labels[VarLabels[i]] # NoValue THEN labels[VarLabels[i]]
                     ELSE c[i]]]

\* MetricVec.CurryWith on the view with curried values c: an error and no
\* view when a key of labels is not a free label of the view (it is curried
\* already, or is no variable label), else a new view that has the labels
\* curried as well.
MetricVecCurryWith(c, labels) ==
    [err |-> ~(KeysOf(labels) \subseteq FreeNames(c)),
     vec |-> IF ~(KeysOf(labels) \subseteq FreeNames(c))
             THEN NoView
             ELSE [i \in 1..Len(VarLabels) |->
                     IF labels[VarLabels[i]] # NoValue THEN labels[VarLabels[i]]
                     ELSE c[i]]]

\* The body of CounterVec.CurryWith, called as method op: the MetricVec
\* returned, when there is one, wrapped as a CounterVec, and the error.
\* must tells the panicking from the non-panicking caller.
CurryWithAs(p, c, op, labels, must, budget) ==
    /\ vloc[p].pc = "idle"
    /\ vhist.calls < budget
    /\ c \in views
    /\ LET r == MetricVecCurryWith(c, labels)
           h == [NoHandle EXCEPT !.op = op, !.view = c, !.args = labels,
                                 !.epoch = vhist.epoch, !.curried = r.vec,
                                 !.out = IF ~r.err THEN "ok"
                                         ELSE IF must THEN "panic" ELSE "error"]
       IN  /\ VecReturn(p, h)
           /\ views' = IF r.vec # NoView THEN views \cup {r.vec} ELSE views
    /\ vhist' = [vhist EXCEPT !.calls = @ + 1]
    /\ UNCHANGED <<counterVars, reads>>

\* A CurryWith whose view starts with a storage of its own, holding no
\* Counter.
CurryWithOwnStorage(p, c, labels, budget) ==
    /\ CurryWithAs(p, c, "CurryWith", labels, FALSE, budget)
    /\ metrics' = [s \in Signatures |-> 0]
    /\ UNCHANGED heap

\* CounterVec.CurryWith: the view and the error of the MetricVec's
\* CurryWith; the CounterVec returned wraps the MetricVec returned, which
\* shares the Counters of the one curried.
CurryWith(p, c, labels, budget) ==
    /\ CurryWithAs(p, c, "CurryWith", labels, FALSE, budget)
    /\ UNCHANGED <<metrics, heap>>

\* CounterVec.MustCurryWith: panics where CurryWith returns an error.
MustCurryWith(p, c, labels, budget) ==
    /\ CurryWithAs(p, c, "MustCurryWith", labels, TRUE, budget)
    /\ UNCHANGED <<metrics, heap>>

\* MetricVec.Reset: the CounterVec forgets every Counter; handles given out
\* keep working.
VecReset(p) ==
    /\ vloc[p].pc = "idle"
    /\ vhist.calls < MaxVecCalls
    /\ metrics' = [s \in Signatures |-> 0]
    /\ vhist' = [vhist EXCEPT !.calls = @ + 1, !.epoch = @ + 1]
    /\ UNCHANGED <<heap, held, vloc, views>>
    /\ UNCHANGED <<counterVars, reads>>

\* Inc on the Counter goroutine p holds a handle of.
VecInc(p) ==
    /\ vloc[p].pc = "idle"
    /\ vhist.calls < MaxVecCalls
    /\ held[p].id # 0
    /\ heap' = [heap EXCEPT ![held[p].id].change = (@ + 1) % CarryMod]
    /\ vhist' = [vhist EXCEPT !.calls = @ + 1, !.incs[held[p].id] = @ + 1]
    /\ UNCHANGED <<metrics, held, vloc, views>>
    /\ UNCHANGED <<counterVars, reads>>

\* Goroutines looking Counters up in one CounterVec and incrementing them.
VecNext ==
    \E p \in Procs :
        \/ \E lvs \in LvsArgs : GetMetricWithLabelValues(p, NoCurry, lvs, MaxVecCalls)
        \/ \E lvs \in LvsArgs : WithLabelValues(p, NoCurry, lvs, MaxVecCalls)
        \/ MetricVecCreate(p)
        \/ VecReset(p)
        \/ VecInc(p)

VecSpec == Init /\ [][VecNext]_vars

\* Goroutines currying one CounterVec and looking Counters up on its views,
\* by label values and by label names.
CurryNext ==
    \E p \in Procs :
        \/ \E c \in views, lvs \in ViewLvsArgs :
               GetMetricWithLabelValues(p, c, lvs, MaxCurryCalls)
        \/ \E c \in views, lvs \in ViewLvsArgs :
               WithLabelValues(p, c, lvs, MaxCurryCalls)
        \/ \E c \in views, labels \in LabelMaps :
               GetMetricWith(p, c, labels, MaxCurryCalls)
        \/ \E c \in views, labels \in LabelMaps : With(p, c, labels, MaxCurryCalls)
        \/ \E c \in views, labels \in LabelMaps :
               CurryWith(p, c, labels, MaxCurryCalls)
        \/ \E c \in views, labels \in LabelMaps :
               MustCurryWith(p, c, labels, MaxCurryCalls)
        \/ MetricVecCreate(p)

CurrySpec == Init /\ [][CurryNext]_vars

\* Goroutines calling Inc and Add on one counter, each goroutine that is
\* inside a call eventually taking its next step.
FairNext ==
    /\ \E p \in Procs :
           \/ Inc(p, MaxFairCalls)
           \/ \E v \in ConcDeltas : Add(p, v, MaxFairCalls)
           \/ AddStep(p)
    /\ UNCHANGED <<vecVars, reads>>

FairSpec ==
    /\ Init
    /\ [][FairNext]_vars
    /\ \A p \in Procs : WF_vars(AddStep(p) /\ UNCHANGED <<vecVars, reads>>)

AllIdle == \A p \in Procs : pc[p] = "idle"

\* ------------------------------------------------------------- properties
\* C1 as stated: once every Inc and Add has returned, the value read is
\* never greater than the exact sum of the deltas.
FinalReadNeverAbove ==
    AllIdle => GetNow <= hist.sumInv

\* C2 as stated: once every Inc and Add has returned, the value read falls
\* short of the exact sum by at most one unit per fold collision.
FinalReadDeficitBounded ==
    AllIdle => hist.sumInv - GetNow <= hist.collisions * One

\* C5 as stated: a get that runs while others write never returns more than
\* the exact sum of the deltas of the calls issued so far.
ReadNeverOverCounts ==
    last.op = "get" => last.val <= hist.sumInv

\* C6 as stated: the value Write exports with an exemplar is never below
\* what get would have returned when the Add of the AddWithExemplar call
\* that stored the exemplar returned.
ExportNotStalerThanExemplarAdd ==
    (last.op = "write" /\ last.ex.present) => last.val >= last.ex.addVal

\* C3: Add(v) and AddWithExemplar(v, labels) with v < 0 always panic, and
\* the panicking call leaves valBits, change and the exemplar as they were.
\* No goroutine is ever inside an Add with a negative delta, and the step
\* in which a call with a negative delta panics changes no register.
NegativeAddPanics ==
    /\ [](\A p \in Procs : pc[p] # "idle" => loc[p].v >= 0)
    /\ [][(/\ hist'.calls = hist.calls + 1
           /\ last'.op \in {"add", "addex"}
           /\ last'.out = "panic"
           /\ last'.v < 0)
          => (valBits' = valBits /\ change' = change /\ exemplar' = exemplar)]_vars

\* A call AddWithExemplar(v, labels) with v < 0 and labels that would have
\* been stored has panicked on a counter that holds a value and an exemplar.
NegativeAddPanicsWitness ==
    /\ last.op = "addex" /\ last.out = "panic" /\ last.v < 0
    /\ last.lab = "valid"
    /\ exemplar.present /\ exemplar.labels = "empty"
    /\ valBits # 0 /\ change # 0

\* C7: AddWithExemplar(v, labels) with v >= 0, in the step of
\* updateExemplar: nil labels leave the exemplar as it was; valid labels,
\* the empty set included, replace it by one carrying v and the labels; in
\* both cases the Add has been made, the counter's value was at least v when
\* it returned.
ExemplarStoredOrKept ==
    [][\A p \in Procs :
         (pc[p] = "updEx" /\ pc'[p] = "idle") =>
            /\ loc[p].addVal >= loc[p].v
            /\ loc[p].lab = NilLabels => exemplar' = exemplar
            /\ (loc[p].lab # NilLabels /\ NewExemplarOk(loc[p].lab)) =>
                  /\ exemplar'.present
                  /\ exemplar'.value = loc[p].v
                  /\ exemplar'.labels = loc[p].lab]_vars

\* An AddWithExemplar with nil labels has returned on a counter that holds
\* the exemplar of an earlier call, stored with the empty label set.
ExemplarStoredOrKeptWitness ==
    /\ last.op = "addex" /\ last.out = "ok" /\ last.lab = NilLabels
    /\ last.v = BigBase
    /\ exemplar.present /\ exemplar.labels = "empty" /\ exemplar.value = One

\* C4 as stated: with one goroutine, a get never returns less than the get
\* before it, whatever Inc and Add calls were made in between.
SequentialReadsMonotone ==
    [][(pc[1] = "getChange" /\ pc'[1] = "idle") => last'.val >= hist.lastRead]_vars

AddIsLockFree ==
    /\ [](\A p \in Procs : loc[p].op # "inc")
    /\ [][(hist'.calls = hist.calls + 1 /\ pc' = pc) =>
            /\ last'.op = "inc" /\ last'.out = "ok"
            /\ change' = (change + 1) % CarryMod
            /\ valBits' = valBits]_vars
    /\ [][\A p \in Procs :
            /\ (pc[p] = "casChange" /\ pc'[p] = "load") =>
                   (change # loc[p].oldChange /\ intf[p].chg)
            /\ (pc[p] \in {"casFold", "casDirect"} /\ pc'[p] = "load") =>
                   (valBits # loc[p].oldBits /\ intf[p].val)]_vars
    /\ \A p \in Procs : (pc[p] # "idle") ~> (pc[p] = "idle")

\* Every call has returned, and compare-and-swaps have failed on the way.
AddIsLockFreeWitness ==
    AllIdle /\ hist.retries >= 2 /\ hist.calls = MaxFairCalls

\* C10: lookups of the same label values, with no Reset between them,
\* return the same Counter; lookups of different label values return
\* different Counters; and every Counter created holds exactly the Inc
\* calls made through its handles, so it started at 0 and an Inc through
\* one handle shows through every other.
SameValuesSameCounter ==
    /\ \A i, j \in 1..Len(vhist.log) :
          /\ (vhist.log[i].lvs = vhist.log[j].lvs
                /\ vhist.log[i].epoch = vhist.log[j].epoch)
             => vhist.log[i].id = vhist.log[j].id
          /\ vhist.log[i].lvs # vhist.log[j].lvs
             => vhist.log[i].id # vhist.log[j].id
    /\ \A i \in 1..Len(vhist.log) :
          /\ vhist.log[i].id \in 1..Len(heap)
          /\ heap[vhist.log[i].id].labelPairs = vhist.log[i].lvs
    /\ \A c \in 1..Len(heap) :
          GetValue(heap[c].valBits, heap[c].change) = vhist.incs[c] * Unit

\* Two goroutines hold the Counter of the same label values, one lookup
\* created it, a later one found it, it has been incremented through a
\* handle, and a lookup of other values has returned another Counter.
SameValuesSameCounterWitness ==
    /\ held[1].id # 0 /\ held[1].id = held[2].id
    /\ heap[held[1].id].change = 2
    /\ \E i, j \in 1..Len(vhist.log) :
          i < j /\ vhist.log[i].lvs = vhist.log[j].lvs
                /\ vhist.log[i].epoch = vhist.log[j].epoch
    /\ \E i \in 1..Len(vhist.log) : vhist.log[i].id # held[1].id

\* ---------------------------------------------------------------------
\* The panicking methods of CounterVec and their non-panicking twins.
Panicking == {"WithLabelValues", "With", "MustCurryWith"}
TwinOf(op) ==
    CASE op = "WithLabelValues" -> "GetMetricWithLabelValues"
      [] op = "With" -> "GetMetricWith"
      [] op = "MustCurryWith" -> "CurryWith"
      [] OTHER -> "none"

\* C11: on every view and for all arguments, WithLabelValues panics exactly
\* when GetMetricWithLabelValues returns an error, which is when the number
\* of label values is not the number of free labels of the view, and when
\* there is no error both return the same Counter; With agrees in the same
\* way with GetMetricWith, and MustCurryWith with CurryWith (there the
\* views returned curry the same labels).
PanicsWhereTwinErrs ==
    /\ \A p \in Procs :
          /\ held[p].out = "panic" => held[p].op \in Panicking
          /\ held[p].out = "error" => held[p].op \in (ByValues \cup ByLabels \cup ByCurry) \ Panicking
          /\ held[p].op \in ByValues =>
                (held[p].out # "ok" <=>
                    Len(held[p].args) # Cardinality(FreePositions(held[p].view)))
    /\ \A p, q \in Procs :
          (/\ held[p].op \in Panicking
           /\ held[q].op = TwinOf(held[p].op)
           /\ held[q].view = held[p].view
           /\ held[q].args = held[p].args)
          => /\ held[p].out = "panic" <=> held[q].out = "error"
             /\ held[p].out = "ok" <=> held[q].out = "ok"
             /\ (held[p].out = "ok" /\ held[p].epoch = held[q].epoch)
                   => /\ held[p].id = held[q].id
                      /\ held[p].lvs = held[q].lvs
                      /\ held[p].curried = held[q].curried

PanicsWhereTwinErrsWitness ==
    \E p, q \in Procs :
        /\ held[p].op = "WithLabelValues" /\ held[p].out = "panic"
        /\ held[q].op = "GetMetricWithLabelValues" /\ held[q].out = "error"
        /\ held[p].view # NoCurry
        /\ held[q].view = held[p].view /\ held[q].args = held[p].args

\* ---------------------------------------------------------------------
\* A step in which a CurryWith or MustCurryWith returns to goroutine p.
CurryReturns(p) ==
    /\ vhist'.calls = vhist.calls + 1
    /\ vloc'[p] = vloc[p]
    /\ held'[p].op \in ByCurry
    /\ \A q \in Procs \ {p} : held'[q] = held[q]
    /\ vhist'.log = vhist.log

\* C12: CurryWith yields a view whose free labels are those of the view
\* curried minus the labels given, in the order of the variable labels,
\* with the values given (and those curried before) fixed; the view shares
\* the Counters: lookups on whatever views that resolve to the same label
\* values return the identical Counter, whichever comes first; and a curry
\* creates, copies or removes no Counter.
CurriedViewSharesCounters ==
    /\ [](\A p \in Procs :
            (held[p].op \in ByCurry /\ held[p].out = "ok") =>
               /\ held[p].curried \in views
               /\ FreeNames(held[p].curried) =
                     FreeNames(held[p].view) \ KeysOf(held[p].args)
               /\ \A i \in 1..Len(VarLabels) :
                     held[p].curried[i] =
                        IF VarLabels[i] \in KeysOf(held[p].args)
                        THEN held[p].args[VarLabels[i]]
                        ELSE held[p].view[i])
    /\ [](\A p, q \in Procs :
            (/\ held[p].op \in ByValues \cup ByLabels /\ held[p].out = "ok"
             /\ held[q].op \in ByValues \cup ByLabels /\ held[q].out = "ok"
             /\ held[p].lvs = held[q].lvs
             /\ held[p].epoch = held[q].epoch)
            => held[p].id = held[q].id)
    /\ [](\A p \in Procs :
            (held[p].op \in ByValues \cup ByLabels /\ held[p].out = "ok") =>
               /\ metrics[held[p].lvs] = held[p].id
               /\ \A i \in 1..Len(VarLabels) :
                     held[p].view[i] # NoValue => held[p].lvs[i] = held[p].view[i])
    /\ [](\A i, j \in 1..Len(vhist.log) :
            (vhist.log[i].lvs = vhist.log[j].lvs
             /\ vhist.log[i].epoch = vhist.log[j].epoch)
            => vhist.log[i].id = vhist.log[j].id)
    /\ [][\A p \in Procs : CurryReturns(p) => (metrics' = metrics /\ heap' = heap)]_vars

CurriedViewSharesCountersWitness ==
    \E p, q \in Procs :
        /\ held[p].op \in ByValues /\ held[p].out = "ok"
        /\ held[p].view = [NoCurry EXCEPT ![1] = "x"]
        /\ held[p].args = <<"y">>
        /\ held[q].op \in ByLabels /\ held[q].out = "ok"
        /\ held[q].view = NoCurry
        /\ held[q].args = [NoLabels EXCEPT !["a"] = "x", !["b"] = "y"]
        /\ held[p].id = held[q].id /\ held[p].id # 0

\* ---------------------------------------------------------------------
\* The names a view with curried values c has curried.
CurriedNames(c) == {VarLabels[i] : i \in 1..Len(VarLabels)} \ FreeNames(c)

\* C13: CurryWith with a label name that the view has curried already, or
\* that is no variable label, returns an error and no view, and leaves the
\* views there are and the Counters stored unchanged; a view returned never
\* has a value other than the one its parent had curried.
CurryOfCurriedLabelFails ==
    /\ [](\A p \in Procs :
            held[p].op \in ByCurry =>
               /\ (KeysOf(held[p].args) \cap CurriedNames(held[p].view) # {}
                   \/ KeysOf(held[p].args) \cap {"c"} # {})
                  => (held[p].out # "ok" /\ held[p].curried = NoView)
               /\ held[p].out = "ok" =>
                     \A i \in 1..Len(VarLabels) :
                        held[p].view[i] # NoValue =>
                           held[p].curried[i] = held[p].view[i])
    /\ [][\A p \in Procs :
            (CurryReturns(p) /\ held'[p].out # "ok")
            => (views' = views /\ metrics' = metrics /\ heap' = heap)]_vars

CurryOfCurriedLabelFailsWitness ==
    \E p \in Procs :
        /\ held[p].op = "CurryWith" /\ held[p].out = "error"
        /\ held[p].view = [NoCurry EXCEPT ![1] = "x"]
        /\ held[p].args = [NoLabels EXCEPT !["a"] = "y"]
        /\ held[p].view \in views

\* ---------------------------------------------------------------------
\* A step that is a whole call of Inc.
IncStep ==
    /\ hist'.calls = hist.calls + 1
    /\ pc' = pc
    /\ last'.op = "inc"

\* C14: Inc is one atomic add of 1 on change and nothing else: whatever the
\* other goroutines are in the middle of, the step leaves valBits and the
\* exemplar alone, sets change to change + 1 (in the register's width)
\* whatever valBits holds, returns normally without a retry, and is never
\* refused to an idle goroutine.
IncOnlyAddsOneToChange ==
    /\ [][IncStep =>
            /\ change' = (change + 1) % CarryMod
            /\ valBits' = valBits
            /\ exemplar' = exemplar
            /\ hist'.retries = hist.retries
            /\ hist'.collisions = hist.collisions
            /\ loc' = loc
            /\ last'.out = "ok"]_vars
    /\ [](\A p \in Procs :
            (pc[p] = "idle" /\ hist.calls < MaxCalls) => ENABLED Inc(p, MaxCalls))
    /\ [](\A p \in Procs : loc[p].op # "inc" /\ pc[p] # "inc")

IncOnlyAddsOneToChangeWitness ==
    /\ last.op = "inc"
    /\ \E q \in Procs : pc[q] = "reset" /\ intf[q].chg
    /\ change # 0
    /\ valBits # 0

\* ---------------------------------------------------------------------
\* The steps of an Add of goroutine p: a compare-and-swap that succeeds on
\* the path named, one that fails, the store that ends the fold.
Commits(p, at) == pc[p] = at /\ pc'[p] \notin {at, "load"}
CasFails(p) == pc[p] \in {"casDirect", "casChange", "casFold"} /\ pc'[p] = "load"

\* When the sums count as lost, as stated: when they equal the base.
SumEqualsBase(base, addend) == FAdd(base, addend) = base
CarrySumEqualsBase(base, sum) == FAdd(base, Float64OfUint(sum)) = base
\* When the sums count as lost in addWithRoundingErrorChecking: when they
\* equal the base and the addend is not zero.
DeltaHasRoundingErr(base, v) == addWithRoundingErrorChecking(base, v)[2]
IsChangeSmall(base, sum) == addWithRoundingErrorChecking(base, Float64OfUint(sum))[2]

\* What every commit of an Add writes, the delta v and the sum for change
\* counting as lost on the base loaded as addWithRoundingErrorChecking has
\* it (byCheck), or whenever the float sum equals the base.
CommitsOnOnePath(byCheck) ==
    \A p \in Procs :
        LET base == Float64frombits[loc[p].oldBits]
            v    == loc[p].v
            sum  == (loc[p].oldChange + loc[p].u) % CarryMod
            DeltaLost(b, d) ==
                IF byCheck THEN DeltaHasRoundingErr(b, d) ELSE SumEqualsBase(b, d)
            SumLost(b, c) ==
                IF byCheck THEN IsChangeSmall(b, c) ELSE CarrySumEqualsBase(b, c)
        IN  /\ Commits(p, "casDirect") =>
                  /\ ~DeltaLost(base, v)
                  /\ valBits = loc[p].oldBits
                  /\ valBits' = Float64bits[FAdd(base, v)]
                  /\ change' = change /\ exemplar' = exemplar
            /\ Commits(p, "casChange") =>
                  /\ DeltaLost(base, v) /\ SumLost(base, sum)
                  /\ change = loc[p].oldChange
                  /\ change' = sum
                  /\ valBits' = valBits /\ exemplar' = exemplar
            /\ Commits(p, "casFold") =>
                  /\ DeltaLost(base, v) /\ ~SumLost(base, sum)
                  /\ valBits = loc[p].oldBits
                  /\ valBits' = Float64bits[FAdd(base, Float64OfUint(sum))]
                  /\ change' = change /\ exemplar' = exemplar
                  /\ pc'[p] = "reset"
            /\ Commits(p, "reset") =>
                  /\ change' = 0
                  /\ valBits' = valBits /\ exemplar' = exemplar
            /\ (Commits(p, "casDirect") \/ Commits(p, "casChange") \/ Commits(p, "reset"))
                  => pc'[p] = "idle"
            /\ CasFails(p) =>
                  /\ valBits' = valBits /\ change' = change /\ exemplar' = exemplar
                  /\ loc'[p].oldBits = NoLoc.oldBits
                  /\ loc'[p].v = v
                  /\ pc[p] = "casChange" => change # loc[p].oldChange
                  /\ pc[p] # "casChange" => valBits # loc[p].oldBits
            /\ (pc[p] \in {"load", "loadChange"} /\ pc'[p] # pc[p]) =>
                  /\ valBits' = valBits /\ change' = change /\ exemplar' = exemplar
                  /\ pc[p] = "load" => loc'[p].oldBits = valBits

LostAddReturns == pc[1] \in {"casChange", "reset"} /\ pc'[1] = "idle"
\* The float in valBits plus the integer in change, in quanta: when that
\* Add loaded them, and when it returns.
TotalLoaded == Float64frombits[loc[1].oldBits] + loc[1].oldChange * Unit
TotalAfter == Float64frombits[valBits'] + change' * Unit
\* The integer part of the delta of that Add.
IntegerPart == loc[1].v \div Unit
\* What get returned before that Add, and returns after it.
ReadUnchanged ==
    GetValue(valBits', change') = GetValue(loc[1].oldBits, loc[1].oldChange)

ReadsMonotoneOutsideFolds ==
    [][\A p \in Procs :
          (pc[p] = "getChange" /\ pc'[p] = "idle" /\ ~reads.overlap[p])
          => last'.val >= reads.floor[p]]_vars

\* ---------------------------------------------------------------------
\* A step in which a call panics on entry, before any access.
PanicsOnEntry == hist'.calls = hist.calls + 1 /\ pc' = pc /\ last'.out = "panic"
\* A step in which the updateExemplar of goroutine p's AddWithExemplar panics.
PanicsInUpdateExemplar(p) ==
    pc[p] = "updEx" /\ pc'[p] = "idle" /\ last'.out = "panic"
\* No call but that of goroutine p is in progress, and the run had no
\* fold whose window saw another write of change, no rounded sum, no
\* overflow of change and no fractional delta.
RunExactBut(p) ==
    /\ \A q \in Procs \ {p} : pc[q] = "idle"
    /\ hist.collisions = 0 /\ ~hist.rounded /\ ~hist.wrapped /\ ~hist.frac

\* C18: AddWithExemplar(v, labels) with v >= 0 and labels that are not nil
\* and that newExemplar rejects panics only after its Add has committed: the
\* call never panics on entry, updateExemplar is reached from the commit of
\* the call's own Add only, the panic leaves valBits, change and the stored
\* exemplar as they are, and when it panics the registers hold the delta v
\* (in a run without interference and rounding: the exact sum of all deltas
\* added, v included).
PanicsAfterAddCommitted ==
    /\ [][(PanicsOnEntry /\ last'.op = "addex") => last'.v < 0]_vars
    /\ [][\A p \in Procs :
            (pc[p] # "updEx" /\ pc'[p] = "updEx")
            => /\ Commits(p, "casDirect") \/ Commits(p, "casChange") \/ Commits(p, "reset")
               /\ loc[p].op = "addex" /\ loc[p].v >= 0
               /\ Commits(p, "casDirect") =>
                     /\ valBits' = Float64bits[FAdd(Float64frombits[valBits], loc[p].v)]
                     /\ loc[p].v > 0 => Float64frombits[valBits'] > Float64frombits[valBits]
               /\ Commits(p, "casChange") =>
                     change' = (change + loc[p].v \div Unit) % CarryMod]_vars
    /\ [][\A p \in Procs :
            PanicsInUpdateExemplar(p)
            => /\ loc[p].lab # NilLabels /\ ~NewExemplarOk(loc[p].lab)
               /\ last'.op = "addex" /\ last'.v = loc[p].v /\ last'.v >= 0
               /\ valBits' = valBits /\ change' = change
               /\ exemplar' = exemplar
               /\ RunExactBut(p) =>
                     Float64frombits[valBits'] + change' * Unit = hist.sumInv]_vars

PanicsAfterAddCommittedWitness ==
    /\ last.op = "addex" /\ last.out = "panic" /\ last.lab = "invalid"
    /\ last.v = One
    /\ exemplar.present /\ exemplar.value = BigBase /\ exemplar.labels = "valid"
    /\ change = 1
    /\ Float64frombits[valBits] + change * Unit = hist.sumInv

\* ---------------------------------------------------------------------
\* C19: change never wraps around: every Inc leaves change + 1 in it and
\* every Add that stores oldChange + u leaves that sum in it, as numbers
\* that were not reduced modulo 2^CarryBits, the sum an Add folds into
\* valBits is not reduced either, and neither update makes the value that
\* get computes from the registers go down.
CarryNeverWraps ==
    [][/\ IncStep =>
             /\ change' = change + 1
             /\ GetValue(valBits', change') >= GetValue(valBits, change)
       /\ \A p \in Procs :
             /\ Commits(p, "casChange") =>
                   /\ change' = loc[p].oldChange + loc[p].u
                   /\ GetValue(valBits', change') >= GetValue(valBits, change)
             /\ Commits(p, "casFold") =>
                   loc[p].oldChange + loc[p].u < CarryMod]_vars

====
